---- MODULE Spec2Model ----
(***************************************************************************)
(* A model of pytex.py: the document builder PyTeX (its line sequence      *)
(* _content, append_content, write_document), the preamble produced by     *)
(* _LaTeXDocument.start_new_document, and the math fragments (_LaTeXMath,  *)
(* Integral).                                                              *)
(*                                                                         *)
(* A Python str is a sequence of one-character strings, so that endswith,  *)
(* concatenation, lower() and %-formatting are computed character by       *)
(* character.  A Python value is a record tagged with its type.            *)
(***************************************************************************)
EXTENDS Naturals, Sequences, FiniteSets

VARIABLES
    pc,         \* "new": PyTeX() not called yet; "built"; "raised": PyTeX() raised
    document,   \* PyTeX.document, the fields of the _LaTeXDocument
    _content,   \* PyTeX._content, the line sequence
    fp,         \* what is stored at document.path (the characters written)
    call,       \* the last call made: its name, its arguments, _content before it
    ret,        \* how the last call ended: the value returned or the exception raised
    appended,   \* history: the contents passed to append_content, in call order
    writes      \* history: the number of write_document calls made

vars == <<pc, document, _content, fp, call, ret, appended, writes>>

---------------------------------------------------------------------------
(* Bounds of the model *)

\* the most append_content calls in one behaviour
MaxAppends == 3

\* the most write_document calls in one behaviour
MaxWrites == 3

---------------------------------------------------------------------------
(* Python values *)

None == [type |-> "NoneType"]

PyStr(s) == [type |-> "str", s |-> s]

PyInt(n) == [type |-> "int", n |-> n]

\* an instance of _LaTeXMath or of a subclass; cls is the class
MathObj(cls, content, inline) ==
    [type |-> "_LaTeXMath", cls |-> cls, content |-> content, inline |-> inline]

\* an instance of _LaTeXText or of its subclass Text
TextObj(cls, content) == [type |-> "_LaTeXText", cls |-> cls, content |-> content]

\* isinstance(v, _LaTeXMath)
IsLaTeXMath(v) == v.type = "_LaTeXMath"

\* how a call ends
Return(v) == [raised |-> FALSE, value |-> v]

Raise(e) == [raised |-> TRUE, exc |-> e]

NoCall == [op |-> "none"]

DecimalDigits == <<"0", "1", "2", "3", "4", "5", "6", "7", "8", "9">>

RECURSIVE IntStr(_)
\* str(n) of a non-negative int
IntStr(n) ==
    IF n < 10 THEN <<DecimalDigits[n + 1]>>
    ELSE IntStr(n \div 10) \o <<DecimalDigits[(n % 10) + 1]>>

\* str(v): __str__ of the fragments returns their content
Str(v) ==
    CASE v.type = "str" -> v.s
      [] v.type = "int" -> IntStr(v.n)
      [] v.type = "NoneType" -> <<"N", "o", "n", "e">>
      [] v.type = "_LaTeXMath" -> v.content
      [] v.type = "_LaTeXText" -> v.content

\* bool(v), as an if statement tests it: None, 0 and '' are false, and an
\* object of a class with neither __bool__ nor __len__ is true
Truthy(v) ==
    CASE v.type = "str" -> v.s # <<>>
      [] v.type = "int" -> v.n # 0
      [] v.type = "NoneType" -> FALSE
      [] v.type = "_LaTeXMath" -> TRUE
      [] v.type = "_LaTeXText" -> TRUE

\* s.endswith('\n')
EndsWithNewline(s) == Len(s) > 0 /\ s[Len(s)] = "\n"

UpperCase == <<"A", "B", "C", "D", "E", "F", "G", "H", "I", "J", "K", "L", "M",
               "N", "O", "P", "Q", "R", "S", "T", "U", "V", "W", "X", "Y", "Z">>

LowerCase == <<"a", "b", "c", "d", "e", "f", "g", "h", "i", "j", "k", "l", "m",
               "n", "o", "p", "q", "r", "s", "t", "u", "v", "w", "x", "y", "z">>

\* s.lower()
Lower(s) ==
    [i \in 1..Len(s) |->
        IF \E k \in 1..26 : UpperCase[k] = s[i]
        THEN LowerCase[CHOOSE k \in 1..26 : UpperCase[k] = s[i]]
        ELSE s[i]]

\* the positions of fmt where a %s conversion starts
Conversions(fmt) ==
    {i \in 1..(Len(fmt) - 1) : fmt[i] = "%" /\ fmt[i + 1] = "s"}

\* fmt % arg with one argument that is no tuple: the format must hold exactly
\* one conversion ("not enough arguments for format string" with more, "not
\* all arguments converted during string formatting" with none)
Percent(fmt, arg) ==
    IF Cardinality(Conversions(fmt)) # 1 THEN Raise("TypeError")
    ELSE LET i == CHOOSE k \in Conversions(fmt) : TRUE
         IN  Return(SubSeq(fmt, 1, i - 1) \o Str(arg) \o SubSeq(fmt, i + 2, Len(fmt)))

---------------------------------------------------------------------------
(* _LaTeXDocument *)

EndDocument == <<"\\", "e", "n", "d", "{", "d", "o", "c", "u", "m", "e", "n", "t", "}">>

BeginDocument == <<"\\", "b", "e", "g", "i", "n", "{", "d", "o", "c", "u", "m", "e", "n", "t", "}",
      "\n">>

UsePackageInputenc == <<"\\", "u", "s", "e", "p", "a", "c", "k", "a", "g", "e", "[", "u", "t", "f", "8",
      "]", "{", "i", "n", "p", "u", "t", "e", "n", "c", "}", "\n">>

UsePackageAbnt ==
    <<"\\", "u", "s", "e", "p", "a", "c", "k", "a", "g", "e", "[", "a", "l", "f", ",",
      " ", "a", "b", "n", "t", "-", "e", "m", "p", "h", "a", "s", "i", "z", "e", "=",
      "b", "f", ",", " ", "r", "e", "c", "u", "o", "=", "0", "c", "m", ",", " ", "a",
      "b", "n", "t", "-", "e", "t", "a", "l", "-", "c", "i", "t", "e", "=", "2", ",",
      " ", "a", "b", "n", "t", "-", "e", "t", "a", "l", "-", "l", "i", "s", "t", "=",
      "0", "]", "{", "a", "b", "n", "t", "e", "x", "2", "c", "i", "t", "e", "}", " ",
      "%", " ", "C", "i", "t", "a", "ç", "õ", "e", "s", " ", "p", "a", "d", "r", "ã",
      "o", " ", "A", "B", "N", "T", "\n">>

UsePackageGraphicx == <<"\\", "u", "s", "e", "p", "a", "c", "k", "a", "g", "e", "{", "g", "r", "a", "p",
      "h", "i", "c", "x", "}", "\n">>

UsePackageFloat == <<"\\", "u", "s", "e", "p", "a", "c", "k", "a", "g", "e", "{", "f", "l", "o", "a",
      "t", "}", "\n">>

UsePackageIndentfirst == <<"\\", "u", "s", "e", "p", "a", "c", "k", "a", "g", "e", "{", "i", "n", "d", "e",
      "n", "t", "f", "i", "r", "s", "t", "}", "\n">>

MakeTitle == <<"\\", "m", "a", "k", "e", "t", "i", "t", "l", "e", "\n">>

FrenchSpacing == <<"\\", "f", "r", "e", "n", "c", "h", "s", "p", "a", "c", "i", "n", "g", "\n", "\n">>

\* _LaTeXDocument.__init__: the fields, opts lowered into a set
LaTeXDocument(a) ==
    [document_type |-> a.document_type, font_size |-> a.font_size,
     paper_type |-> a.paper_type, title |-> a.title, author |-> a.author,
     thanks |-> a.thanks, date |-> a.date, make_title |-> a.make_title,
     opts |-> {Lower(o) : o \in a.opts}]

\* the f-string of the document class line, before % document_type
DocClassFormat(self) ==
    <<"\\", "d", "o", "c", "u", "m", "e", "n", "t", "c", "l", "a", "s", "s", "[">> \o Str(self.font_size) \o <<"p", "t", ",", " ">> \o Str(self.paper_type)
        \o <<"]", "{", "%", "s", "}", "\n", "\n">>

\* PackageLines with the float package not nested under figures
PackageLines_float_unnested(self) ==
    (IF <<"a", "b", "n", "t">> \in self.opts THEN <<UsePackageAbnt>> ELSE <<>>)
    \o (IF <<"f", "i", "g", "u", "r", "e", "s">> \in self.opts THEN <<UsePackageGraphicx>> ELSE <<>>)
    \o (IF <<"f", "l", "o", "a", "t">> \in self.opts THEN <<UsePackageFloat>> ELSE <<>>)
    \o (IF <<"i", "n", "d", "e", "n", "t", "f", "i", "r", "s", "t">> \in self.opts THEN <<UsePackageIndentfirst>> ELSE <<>>)

\* the package lines, gated by the options
PackageLines(self) ==
    (IF <<"a", "b", "n", "t">> \in self.opts THEN <<UsePackageAbnt>> ELSE <<>>)
    \o (IF <<"f", "i", "g", "u", "r", "e", "s">> \in self.opts
        THEN <<UsePackageGraphicx>>
             \o (IF <<"f", "l", "o", "a", "t">> \in self.opts THEN <<UsePackageFloat>> ELSE <<>>)
        ELSE <<>>)
    \o (IF <<"i", "n", "d", "e", "n", "t", "f", "i", "r", "s", "t">> \in self.opts THEN <<UsePackageIndentfirst>> ELSE <<>>)

\* the author line: '\\author{%s\\thanks{%s}}\n' % self.author % self.thanks
\* is (format % author) % thanks, and '\\author{%s}\n' % self.author without thanks
AuthorLine(self) ==
    IF Truthy(self.thanks)
    THEN LET first == Percent(<<"\\", "a", "u", "t", "h", "o", "r", "{", "%", "s", "\\", "t", "h", "a", "n", "k",
      "s", "{", "%", "s", "}", "}", "\n">>, self.author)
         IN  IF first.raised THEN first ELSE Percent(first.value, self.thanks)
    ELSE Percent(<<"\\", "a", "u", "t", "h", "o", "r", "{", "%", "s", "}", "\n">>, self.author)

\* the lines of title, author and date, in order: a sequence of call results
TitleBlock(self) ==
    (IF Truthy(self.title) THEN <<Percent(<<"\\", "t", "i", "t", "l", "e", "{", "%", "s", "}", "\n">>, self.title)>> ELSE <<>>)
    \o (IF Truthy(self.author) THEN <<AuthorLine(self)>> ELSE <<>>)
    \o (IF Truthy(self.date) THEN <<Percent(<<"\\", "d", "a", "t", "e", "{", "%", "s", "}", "\n">>, self.date)>> ELSE <<>>)

\* _LaTeXDocument.start_new_document: the initial lines, or the exception of
\* the first formatting that raises
start_new_document(self) ==
    LET doc_class == Percent(DocClassFormat(self), self.document_type)
        block == TitleBlock(self)
    IN  IF doc_class.raised THEN doc_class
        ELSE IF \E i \in 1..Len(block) : block[i].raised
        THEN block[CHOOSE i \in 1..Len(block) :
                     block[i].raised /\ \A j \in 1..(i - 1) : ~block[j].raised]
        ELSE Return(<<doc_class.value, UsePackageInputenc>>
                    \o PackageLines(self)
                    \o <<<<"\n">>>>
                    \o [i \in 1..Len(block) |-> block[i].value]
                    \o <<BeginDocument>>
                    \o (IF self.make_title THEN <<MakeTitle>> ELSE <<>>)
                    \o <<FrenchSpacing>>)

RECURSIVE Concat(_)
\* ''.join(lines): what fp.writelines(lines) writes
Concat(lines) ==
    IF lines = <<>> THEN <<>> ELSE Head(lines) \o Concat(Tail(lines))

\* WithEndDocument with the test of the last line left out
WithEndDocument_unchecked(lines) == Append(lines, EndDocument)

\* the list after line 62-63 of _LaTeXDocument.write_document
WithEndDocument(lines) ==
    IF lines[Len(lines)] # EndDocument THEN Append(lines, EndDocument) ELSE lines

---------------------------------------------------------------------------
(* The arguments of PyTeX() *)

DefaultFontSize == 12

DefaultPaperType == <<"a", "4", "p", "a", "p", "e", "r">>

\* the recognised options, each in three spellings
OptionSpellings ==
    [lower |-> [abnt |-> <<"a", "b", "n", "t">>, figures |-> <<"f", "i", "g", "u", "r", "e", "s">>, float |-> <<"f", "l", "o", "a", "t">>,
                indentfirst |-> <<"i", "n", "d", "e", "n", "t", "f", "i", "r", "s", "t">>],
     upper |-> [abnt |-> <<"A", "B", "N", "T">>, figures |-> <<"F", "I", "G", "U", "R", "E", "S">>, float |-> <<"F", "L", "O", "A", "T">>,
                indentfirst |-> <<"I", "N", "D", "E", "N", "T", "F", "I", "R", "S", "T">>],
     mixed |-> [abnt |-> <<"A", "b", "n", "t">>, figures |-> <<"F", "i", "g", "u", "r", "e", "s">>, float |-> <<"F", "l", "o", "a", "t">>,
                indentfirst |-> <<"i", "n", "d", "e", "n", "t", "F", "i", "r", "s", "t">>]]

OptionFlags == {"abnt", "figures", "float", "indentfirst"}

Args(title, author, thanks, date, make_title, opts) ==
    [document_type |-> PyStr(<<"a", "r", "t", "i", "c", "l", "e">>), font_size |-> PyInt(DefaultFontSize),
     paper_type |-> PyStr(DefaultPaperType), title |-> title, author |-> author,
     thanks |-> thanks, date |-> date, make_title |-> make_title, opts |-> opts]

\* every combination of title, author, thanks and date absent, empty or given,
\* of make_title, and of the option flags in each spelling
AllArgs ==
    {Args(t, a, k, d, m, {OptionSpellings[sp][f] : f \in fl}) :
        t \in {None, PyStr(<<>>), PyStr(<<"T">>)},
        a \in {None, PyStr(<<>>), PyStr(<<"A">>)},
        k \in {None, PyStr(<<>>), PyStr(<<"K">>)},
        d \in {None, PyStr(<<"D">>)},
        m \in BOOLEAN,
        fl \in SUBSET OptionFlags,
        sp \in {"lower", "upper", "mixed"}}

\* the few arguments the builder's behaviours start from
BuilderArgs ==
    {Args(None, None, None, None, FALSE, {}),
     Args(PyStr(<<"T">>), PyStr(<<"A">>), None, PyStr(<<"D">>), TRUE, {<<"F", "i", "g", "u", "r", "e", "s">>, <<"f", "l", "o", "a", "t">>}),
     Args(None, PyStr(<<"A">>), PyStr(<<"K">>), None, FALSE, {})}

---------------------------------------------------------------------------
(* PyTeX *)

Init ==
    /\ pc = "new"
    /\ document = None
    /\ _content = <<>>
    /\ fp = None          \* nothing written yet
    /\ call = NoCall
    /\ ret = Return(None)
    /\ appended = <<>>
    /\ writes = 0

\* PyTeX.__init__: builds the _LaTeXDocument, then takes its initial lines
PyTeX(a) ==
    /\ pc = "new"
    /\ LET self == LaTeXDocument(a)
           lines == start_new_document(self)
       IN  /\ document' = self
           /\ call' = [op |-> "PyTeX", arg |-> a]
           /\ IF lines.raised
              THEN /\ pc' = "raised"
                   /\ ret' = lines
                   /\ UNCHANGED _content
              ELSE /\ pc' = "built"
                   /\ ret' = Return(None)
                   /\ _content' = lines.value
    /\ UNCHANGED <<fp, appended, writes>>

NextDoc == \E a \in AllArgs : PyTeX(a)

\* construction alone, over every combination of arguments
SpecDoc == Init /\ [][NextDoc]_vars

---------------------------------------------------------------------------
(* The fragments *)

\* _LaTeXMath.__init__(self, content, inline), called with the positional
\* arguments argv: a call with one argument short raises TypeError
LaTeXMath_init(cls, argv) ==
    IF Len(argv) # 2 THEN Raise("TypeError")
    ELSE Return(MathObj(cls, argv[1], argv[2]))

\* _LaTeXMath.__add__
LaTeXMath_add(self, math) ==
    LaTeXMath_init("_LaTeXMath", <<self.content \o Str(math)>>)

\* _LaTeXMath.__neg__
LaTeXMath_neg(self) ==
    LaTeXMath_init("_LaTeXMath", <<<<"-">> \o self.content, self.inline>>)

\* Sqrt.__init__
Sqrt(rooting, inline) ==
    LaTeXMath_init("Sqrt", <<<<"\\", "s", "q", "r", "t", "{">> \o Str(rooting) \o <<"}">>, inline>>)

\* '{%s}' % str(v), the braces Integral puts around each part
Braced(v) == Percent(<<"{", "%", "s", "}">>, PyStr(Str(v))).value

\* IntegralHead with the limits tested by truth value instead of by None
IntegralHead_truthy(integrand, lower_limit, upper_limit) ==
    IF ~Truthy(lower_limit) /\ ~Truthy(upper_limit)
    THEN Return(<<"\\", "i", "n", "t", " ">> \o Braced(integrand))
    ELSE IF Truthy(lower_limit) /\ Truthy(upper_limit)
    THEN Return(<<"\\", "i", "n", "t", "_">> \o Braced(lower_limit) \o <<"^">> \o Braced(upper_limit)
                \o <<" ">> \o Braced(integrand))
    ELSE Raise("Exception")

\* the integral sign with its limits and the integrand (lines 214-222), or the
\* exception of the one-sided case
IntegralHead(integrand, lower_limit, upper_limit) ==
    IF lower_limit = None /\ upper_limit = None
    THEN Return(<<"\\", "i", "n", "t", " ">> \o Braced(integrand))
    ELSE IF lower_limit # None /\ upper_limit # None
    THEN Return(<<"\\", "i", "n", "t", "_">> \o Braced(lower_limit) \o <<"^">> \o Braced(upper_limit)
                \o <<" ">> \o Braced(integrand))
    ELSE Raise("Exception")

\* the ' = {result}' of lines 224-226
IntegralResult(result) ==
    IF Truthy(result) THEN <<" ", "=", " ">> \o Braced(result) ELSE <<>>

\* Integral.__init__
Integral(integrand, lower_limit, upper_limit, result, inline) ==
    LET head == IntegralHead(integrand, lower_limit, upper_limit)
    IN  IF head.raised THEN head
        ELSE LaTeXMath_init("Integral", <<head.value \o IntegralResult(result), inline>>)

\* one %-wrapping of Text.__init__
Styled(on, fmt, content) == IF on THEN Percent(fmt, PyStr(content)).value ELSE content

\* Text.__init__
Text(content, emph, bold, underline, italic) ==
    TextObj("Text",
        Styled(emph, <<"\\", "e", "m", "p", "h", "{", "%", "s", "}">>,
            Styled(bold, <<"\\", "t", "e", "x", "t", "b", "f", "{", "%", "s", "}">>,
                Styled(underline, <<"\\", "u", "n", "d", "e", "r", "l", "i", "n", "e", "{", "%", "s", "}">>,
                    Styled(italic, <<"\\", "t", "e", "x", "t", "i", "t", "{", "%", "s", "}">>, content)))))

---------------------------------------------------------------------------
(* PyTeX.append_content and PyTeX.write_document *)

\* _remove_end_content that removes nothing
_remove_end_content_keeps(lines) == lines

\* PyTeX._remove_end_content
_remove_end_content(lines) ==
    IF lines[Len(lines)] = EndDocument THEN SubSeq(lines, 1, Len(lines) - 1) ELSE lines

\* lines 109-119: a math fragment is unwrapped and put in its environment,
\* anything else is kept as it is
Environment(content) ==
    IF IsLaTeXMath(content)
    THEN IF content.inline
         THEN PyStr(<<"\\", "b", "e", "g", "i", "n", "{", "m", "a", "t", "h", "}", "\n">> \o <<"\t">> \o content.content \o <<"\n">>
                    \o <<"\\", "e", "n", "d", "{", "m", "a", "t", "h", "}">>)
         ELSE PyStr(<<"\\", "b", "e", "g", "i", "n", "{", "e", "q", "u", "a", "t", "i", "o", "n", "}",
      "\n">> \o <<"\t">> \o content.content \o <<"\n">>
                    \o <<"\\", "e", "n", "d", "{", "e", "q", "u", "a", "t", "i", "o", "n", "}">>)
    ELSE content

\* Terminated with the newline added whether or not there is one
Terminated_unconditional(s) == (s \o <<"\n">>) \o <<"\n">>

\* lines 121-123 on a str
Terminated(s) == (IF ~EndsWithNewline(s) THEN s \o <<"\n">> ELSE s) \o <<"\n">>

\* lines 109-123: the entry to push, or AttributeError when the content has
\* no endswith (only str has)
Entry(content) ==
    LET c == Environment(content)
    IN  IF c.type = "str" THEN Return(Terminated(c.s)) ELSE Raise("AttributeError")

\* what append_content is called with
AppendContents ==
    {PyStr(<<>>), PyStr(<<"a">>), PyStr(<<"a", "\n">>), PyStr(<<"a", "\n", "\n">>),
     PyStr(EndDocument),
     Sqrt(PyInt(4), TRUE).value, Sqrt(PyInt(4), FALSE).value,
     Text(<<"a">>, FALSE, TRUE, FALSE, FALSE)}

\* PyTeX.append_content
append_content(content) ==
    /\ pc = "built"
    /\ Len(appended) < MaxAppends
    /\ LET lines == _remove_end_content(_content)
           entry == Entry(content)
       IN  /\ _content' = IF entry.raised THEN lines ELSE Append(lines, entry.value)
           /\ ret' = IF entry.raised THEN entry ELSE Return(None)
    /\ call' = [op |-> "append_content", arg |-> content, before |-> _content]
    /\ appended' = Append(appended, content)
    /\ UNCHANGED <<pc, document, fp, writes>>

\* PyTeX.write_document -> _LaTeXDocument.write_document(self._content);
\* opens says whether open(path, 'w') succeeds. The closing marker is appended to
\* the builder's own list (the argument is self._content itself) before the
\* file is opened; a failed open raises OSError and stores nothing
write_document(opens) ==
    /\ pc = "built"
    /\ writes < MaxWrites
    /\ _content' = WithEndDocument(_content)
    /\ IF opens
       THEN /\ fp' = PyStr(Concat(_content'))
            /\ ret' = Return(None)
       ELSE /\ ret' = Raise("OSError")
            /\ UNCHANGED fp
    /\ call' = [op |-> "write_document", opens |-> opens, before |-> _content]
    /\ writes' = writes + 1
    /\ UNCHANGED <<pc, document, appended>>

Next ==
    \/ \E a \in BuilderArgs : PyTeX(a)
    \/ \E c \in AppendContents : append_content(c)
    \/ \E opens \in BOOLEAN : write_document(opens)

\* one builder: its construction, then appends and writes in any order
Spec == Init /\ [][Next]_vars

---------------------------------------------------------------------------
(* The fragments' constructors and operators, called on their own *)

Numbers == {PyInt(0), PyInt(1), PyInt(5)}

MathOperands ==
    {Sqrt(PyInt(4), TRUE).value, Sqrt(PyStr(<<"x">>), FALSE).value,
     MathObj("_LaTeXMath", <<>>, FALSE)}

Integrands == {PyStr(<<"x">>), Sqrt(PyStr(<<"x">>), FALSE).value}

Limits == {None, PyInt(0), PyInt(1), PyStr(<<"a">>)}

Results == {None, PyInt(0), PyInt(5), PyStr(<<>>), PyStr(<<"5">>), Sqrt(PyInt(4), FALSE).value}

\* Integral(integrand, lower_limit, upper_limit, result, inline)
CallIntegral(integrand, lower_limit, upper_limit, result, inline) ==
    /\ call' = [op |-> "Integral", integrand |-> integrand, lower_limit |-> lower_limit,
                upper_limit |-> upper_limit, result |-> result, inline |-> inline]
    /\ ret' = Integral(integrand, lower_limit, upper_limit, result, inline)
    /\ UNCHANGED <<pc, document, _content, fp, appended, writes>>

\* a + b
CallAdd(a, b) ==
    /\ call' = [op |-> "__add__", self |-> a, math |-> b]
    /\ ret' = LaTeXMath_add(a, b)
    /\ UNCHANGED <<pc, document, _content, fp, appended, writes>>

\* -a
CallNeg(a) ==
    /\ call' = [op |-> "__neg__", self |-> a]
    /\ ret' = LaTeXMath_neg(a)
    /\ UNCHANGED <<pc, document, _content, fp, appended, writes>>

NextMath ==
    \/ \E i \in Integrands, lo \in Limits, up \in Limits, r \in Results, inl \in BOOLEAN :
          CallIntegral(i, lo, up, r, inl)
    \/ \E a \in MathOperands, b \in MathOperands \cup Numbers : CallAdd(a, b)
    \/ \E a \in MathOperands : CallNeg(a)

\* the fragments alone
SpecMath == Init /\ [][NextMath]_vars

---------------------------------------------------------------------------
(* What the claims are stated with *)

Last(seq) == seq[Len(seq)]

\* the number of entries of lines equal to line
Occurrences(lines, line) == Cardinality({i \in 1..Len(lines) : lines[i] = line})

RECURSIVE TrailingNewlines(_)
\* the number of newline characters s ends with
TrailingNewlines(s) ==
    IF EndsWithNewline(s) THEN 1 + TrailingNewlines(SubSeq(s, 1, Len(s) - 1)) ELSE 0

HasSuffix(s, t) == Len(t) <= Len(s) /\ SubSeq(s, Len(s) - Len(t) + 1, Len(s)) = t

HasPrefix(s, t) == Len(t) <= Len(s) /\ SubSeq(s, 1, Len(t)) = t

\* the option flag f was passed to PyTeX(), in some spelling
FlagGiven(f) == \E sp \in DOMAIN OptionSpellings : OptionSpellings[sp][f] \in call.arg.opts

IsPackageLine(line) ==
    line \in {UsePackageAbnt, UsePackageGraphicx, UsePackageFloat, UsePackageIndentfirst}

\* the package lines in their fixed order, those kept for which keep holds
PackagesInOrder(keep) ==
    (IF keep["abnt"] THEN <<UsePackageAbnt>> ELSE <<>>)
    \o (IF keep["figures"] THEN <<UsePackageGraphicx>> ELSE <<>>)
    \o (IF keep["float"] THEN <<UsePackageFloat>> ELSE <<>>)
    \o (IF keep["indentfirst"] THEN <<UsePackageIndentfirst>> ELSE <<>>)

AfterWrite == call.op = "write_document"

AfterAppend == call.op = "append_content"

AfterPyTeX == call.op = "PyTeX"

AfterIntegral == call.op = "Integral"

---------------------------------------------------------------------------
(* The claims *)

\* C1: immediately after each write_document the line sequence holds the closing
\* marker '\end{document}' exactly once, as its last entry, whatever appends and
\* writes came before (consecutive writes add no second marker, and an append
\* between two writes leaves no earlier marker inside).
C1_ClosingMarkerOnceAndLast ==
    AfterWrite => /\ Last(_content) = EndDocument
                  /\ Occurrences(_content, EndDocument) = 1

\* C1, its case: a second write whose list had lost the marker of the first write
\* to an append made in between.
C1_Witness ==
    /\ AfterWrite
    /\ writes = 2
    /\ Len(appended) >= 1
    /\ Last(call.before) # EndDocument
    /\ Last(_content) = EndDocument

\* C2: append_content accepts a Text Run like a plain string: for both it ends
\* without an error and pushes one entry, the content's rendered string followed
\* only by the newline termination.
C2_TextRunAppendedLikeString ==
    (AfterAppend /\ call.arg.type \in {"str", "_LaTeXText"}) =>
        /\ ~ret.raised
        /\ Len(_content)
              = Len(call.before) + (IF Last(call.before) = EndDocument THEN 0 ELSE 1)
        /\ Last(_content) \in {Str(call.arg) \o <<"\n">>, Str(call.arg) \o <<"\n", "\n">>}

\* C3: a + b returns, without raising, a new Math Expression whose content is
\* a's content followed by str(b) and whose inline flag is a's.
C3_AddConcatenates ==
    call.op = "__add__" =>
        /\ ~ret.raised
        /\ ret.value.content = call.self.content \o Str(call.math)
        /\ ret.value.inline = call.self.inline

\* C4: Integral appends ' = {result}' whenever a result is given (is not None),
\* the number 0 and the empty string included, and only then.
C4_ResultSuffixWheneverGiven ==
    (AfterIntegral /\ ~ret.raised) =>
        ((call.result # None)
            <=> HasSuffix(ret.value.content, <<" ", "=", " ", "{">> \o Str(call.result) \o <<"}">>))

\* C5: Integral raises if and only if exactly one of lower_limit and upper_limit
\* is given, given meaning not None (a limit of 0 is given); with both it is the
\* bounded integral, with neither the unbounded one; a raise produces no object.
C5_RaisesIffOneLimit ==
    AfterIntegral =>
        /\ ret.raised <=> ((call.lower_limit = None) # (call.upper_limit = None))
        /\ ret.raised => "value" \notin DOMAIN ret
        /\ (call.lower_limit # None /\ call.upper_limit # None) =>
              HasPrefix(ret.value.content,
                        <<"\\", "i", "n", "t", "_", "{">> \o Str(call.lower_limit) \o <<"}", "^", "{">>
                            \o Str(call.upper_limit) \o <<"}", " ">>)
        /\ (call.lower_limit = None /\ call.upper_limit = None) =>
              HasPrefix(ret.value.content, <<"\\", "i", "n", "t", " ", "{">>)

\* C5, its case: Integral(x, lower_limit=0) has raised.
C5_Witness ==
    /\ AfterIntegral
    /\ call.lower_limit = PyInt(0)
    /\ call.upper_limit = None
    /\ ret.raised

\* C6: PyTeX() raises for no combination of title, author, thanks and date, and
\* the initial lines hold the title, author and date directives exactly when the
\* field is non-empty, the author directive carrying the thanks when thanks is
\* non-empty too.
C6_TitleBlockNeverRaises ==
    AfterPyTeX =>
        /\ pc = "built"
        /\ Occurrences(_content, <<"\\", "t", "i", "t", "l", "e", "{">> \o Str(call.arg.title) \o <<"}", "\n">>)
              = (IF Truthy(call.arg.title) THEN 1 ELSE 0)
        /\ Occurrences(_content, <<"\\", "d", "a", "t", "e", "{">> \o Str(call.arg.date) \o <<"}", "\n">>)
              = (IF Truthy(call.arg.date) THEN 1 ELSE 0)
        /\ Occurrences(_content, <<"\\", "a", "u", "t", "h", "o", "r", "{">> \o Str(call.arg.author) \o <<"}", "\n">>)
              = (IF Truthy(call.arg.author) /\ ~Truthy(call.arg.thanks) THEN 1 ELSE 0)
        /\ Occurrences(_content, <<"\\", "a", "u", "t", "h", "o", "r", "{">> \o Str(call.arg.author) \o <<"\\", "t", "h", "a", "n", "k", "s", "{">>
                                    \o Str(call.arg.thanks) \o <<"}", "}", "\n">>)
              = (IF Truthy(call.arg.author) /\ Truthy(call.arg.thanks) THEN 1 ELSE 0)

\* C7 as stated: the initial lines hold exactly one document-open marker, and
\* the package lines abntex2cite, graphicx, float, indentfirst in this order,
\* each present if and only if its flag is set.
C7_EachPackageIffItsFlag ==
    (AfterPyTeX /\ pc = "built") =>
        /\ Occurrences(_content, BeginDocument) = 1
        /\ SelectSeq(_content, IsPackageLine)
              = PackagesInOrder([f \in OptionFlags |-> FlagGiven(f)])

\* C7 as amended: the same, but the float line is present if and only if both
\* float and figures are set.
C7_FloatOnlyUnderFigures ==
    (AfterPyTeX /\ pc = "built") =>
        /\ Occurrences(_content, BeginDocument) = 1
        /\ SelectSeq(_content, IsPackageLine)
              = PackagesInOrder([f \in OptionFlags |->
                    IF f = "float" THEN FlagGiven("float") /\ FlagGiven("figures")
                    ELSE FlagGiven(f)])

\* C7, its case: a builder made with FLOAT and INDENTFIRST but without figures.
C7_Witness ==
    /\ AfterPyTeX
    /\ pc = "built"
    /\ call.arg.opts = {OptionSpellings["upper"]["float"],
                        OptionSpellings["upper"]["indentfirst"]}
    /\ Occurrences(_content, UsePackageIndentfirst) = 1

\* C8: after N append_content calls with any contents and any writes in between,
\* a write_document leaves (number of initial lines) + N + 1 entries: the initial
\* lines, one entry per append in append order, and the closing marker.
C8_OneEntryPerAppend ==
    (AfterWrite /\ ~ret.raised) =>
        LET initial == start_new_document(document).value
            n0 == Len(initial)
        IN  /\ Len(_content) = n0 + Len(appended) + 1
            /\ SubSeq(_content, 1, n0) = initial
            /\ \E i \in 1..n0 : _content[i] = BeginDocument
            /\ \A i \in 1..Len(appended) :
                 \/ HasPrefix(_content[n0 + i], Str(appended[i]))
                 \/ /\ IsLaTeXMath(appended[i])
                    /\ \E k \in 1..Len(_content[n0 + i]) :
                          HasPrefix(SubSeq(_content[n0 + i], k, Len(_content[n0 + i])),
                                    Str(appended[i]))
            /\ Last(_content) = EndDocument

\* C9 as stated: the entry append_content pushes ends with exactly two newline
\* characters, whether the content ended with none, one or several.
C9_ExactlyTwoNewlines ==
    (AfterAppend /\ ~ret.raised) => TrailingNewlines(Last(_content)) = 2

\* C9 as amended: the entry is the rendered content, a newline added only when
\* it ends with none, and one more newline: it ends with two newlines when the
\* content ended with none or one (a Math Expression always), and with k + 1 when
\* a string ended with k >= 2.
C9_OneMoreNewlineThanAtLeastOne ==
    (AfterAppend /\ ~ret.raised) =>
        LET k == IF call.arg.type = "str" THEN TrailingNewlines(call.arg.s) ELSE 0
        IN  /\ TrailingNewlines(Last(_content)) = (IF k <= 1 THEN 2 ELSE k + 1)
            /\ call.arg.type = "str" =>
                  \E t \in {<<"\n">>, <<"\n", "\n">>} : Last(_content) = call.arg.s \o t

\* C9, its case: a string ending with two newlines was appended.
C9_Witness ==
    /\ AfterAppend
    /\ call.arg = PyStr(<<"a", "\n", "\n">>)
    /\ TrailingNewlines(Last(_content)) = 3

\* C10 as stated: after a write_document that failed on the storage sink the
\* line sequence is what it was before the call, no entry added or removed.
C10_FailedWriteLeavesLinesAsBefore ==
    (AfterWrite /\ ret.raised) => _content = call.before

\* C10 as amended: after a write_document that failed on the storage sink the
\* line sequence is the one before the call with the closing marker appended if
\* it was not its last entry, and no other entry added or removed: it is the
\* list a successful write leaves, so a later write writes the same document.
C10_FailedWriteOnlyAddsClosingMarker ==
    (AfterWrite /\ ret.raised) =>
        /\ ret.exc = "OSError"
        /\ _content = IF Last(call.before) = EndDocument THEN call.before
                      ELSE Append(call.before, EndDocument)

\* C10, its case: a failed write that has added the closing marker.
C10_Witness ==
    /\ AfterWrite
    /\ ret.raised
    /\ Len(_content) = Len(call.before) + 1

====
